---- MODULE Spec2Model ----
(***************************************************************************)
(* Model of actions/doxygen/scripts/patch_doxyfile.py: one command-line    *)
(* run of DoxyfileUpdater.update_doxyfile, step by step, over a small      *)
(* file system (CMakeLists.txt, README.md and the Doxyfile to patch).      *)
(* A Python str is a sequence of one-character strings.                    *)
(***************************************************************************)
EXTENDS Integers, Sequences, FiniteSets, TLC

\* ------------------------------------------------------------------ bounds
\* Number of fragments a Doxyfile content is built from.
MaxFrags == 2
\* Number of consecutive command-line runs on the same file system.
MaxRuns == 2

\* --------------------------------------------------- characters and strings
Whitespace == {" ", "\t", "\n", "\r", "\f"}

Digit == {"0", "1", "2", "3", "4", "5", "6", "7", "8", "9"}

UpperToLower ==
    [A |-> "a", B |-> "b", C |-> "c", D |-> "d", E |-> "e", F |-> "f",
     G |-> "g", H |-> "h", I |-> "i", J |-> "j", K |-> "k", L |-> "l",
     M |-> "m", N |-> "n", O |-> "o", P |-> "p", Q |-> "q", R |-> "r",
     S |-> "s", T |-> "t", U |-> "u", V |-> "v", W |-> "w", X |-> "x",
     Y |-> "y", Z |-> "z"]

\* re.IGNORECASE compares characters by their lower-case form.
Lower(c) == IF c \in DOMAIN UpperToLower THEN UpperToLower[c] ELSE c

LowerSeq(s) == [i \in 1..Len(s) |-> Lower(s[i])]

Min(S) == CHOOSE x \in S : \A y \in S : x <= y

Max(S) == CHOOSE x \in S : \A y \in S : x >= y

\* t occurs in s at index i.
StartsAt(s, i, t) ==
    /\ i >= 1
    /\ i + Len(t) - 1 <= Len(s)
    /\ SubSeq(s, i, i + Len(t) - 1) = t

\* t (given in lower case) occurs in s at index i, ignoring case.
StartsAtNoCase(s, i, t) ==
    /\ i >= 1
    /\ i + Len(t) - 1 <= Len(s)
    /\ LowerSeq(SubSeq(s, i, i + Len(t) - 1)) = t

\* First index >= i of s holding no character of set C (Len(s)+1 if none):
\* where a greedy run of C-characters starting at i ends.
RunEnd(s, i, C) ==
    Min({j \in i..(Len(s) + 1) : j = Len(s) + 1 \/ s[j] \notin C})

\* str.strip(): leading and trailing whitespace removed.
Strip(s) ==
    LET keep == {i \in 1..Len(s) : s[i] \notin Whitespace}
    IN  IF keep = {} THEN <<>> ELSE SubSeq(s, Min(keep), Max(keep))

\* file.readline(): the text up to and including the first newline.
ReadLine(s) ==
    LET nl == {i \in 1..Len(s) : s[i] = "\n"}
    IN  IF nl = {} THEN s ELSE SubSeq(s, 1, Min(nl))

\* Indices >= i of s at which old occurs.
MatchesFrom(s, old, i) == {j \in i..Len(s) : StartsAt(s, j, old)}

RECURSIVE ReplaceFrom(_, _, _, _)
\* str.replace scanning from index i: left to right, each occurrence found
\* is replaced and the scan resumes after it (non-overlapping).
ReplaceFrom(s, old, new, i) ==
    IF MatchesFrom(s, old, i) = {} THEN SubSeq(s, i, Len(s))
    ELSE LET j == Min(MatchesFrom(s, old, i))
         IN  SubSeq(s, i, j - 1) \o new
             \o ReplaceFrom(s, old, new, j + Len(old))

\* str.replace(old, new) for a non-empty old.
Replace(s, old, new) == ReplaceFrom(s, old, new, 1)

\* ------------------------------------------------------------ the patterns
\* Positions reachable from a position of P by \d+ (one or more digits).
AfterDigits(s, P) ==
    {q \in 2..(Len(s) + 1) :
        \E p \in P : p < q /\ \A i \in p..(q - 1) : s[i] \in Digit}

\* Positions reachable from a position of P by \. (a literal dot).
AfterDot(s, P) == {p + 1 : p \in {q \in P : q <= Len(s) /\ s[q] = "."}}

\* Where $ matches without re.MULTILINE: at the end of the string, and just
\* before a newline that is the string's last character.
AtDollar(s, p) ==
    \/ p = Len(s) + 1
    \/ p = Len(s) /\ s[p] = "\n"

\* self.version_pattern.match(s), pattern ^\d+\.\d+\.\d+(?:\.\d+)?$
VersionPatternMatch(s) ==
    LET three == AfterDigits(s, AfterDot(s,
                     AfterDigits(s, AfterDot(s, AfterDigits(s, {1})))))
        four  == AfterDigits(s, AfterDot(s, three))
    IN  \E p \in three \cup four : AtDollar(s, p)

validate_version(version) == VersionPatternMatch(version)

VERSION_TOKEN ==
    <<"%", "P", "R", "O", "J", "E", "C", "T", "_", "V", "E", "R", "S", "I",
      "O", "N", "%">>

NAME_TOKEN ==
    <<"%", "P", "R", "O", "J", "E", "C", "T", "_", "N", "A", "M", "E", "%">>

KwProject == <<"p", "r", "o", "j", "e", "c", "t">>

KwVersion == <<"v", "e", "r", "s", "i", "o", "n">>

KwSet == <<"S", "E", "T">>

KwCppFix ==
    <<"(", "V", "E", "R", "S", "I", "O", "N", "_", "C", "P", "P", "F", "I",
      "X">>

\* End (exclusive) of the greedy match of \d+\.\d+\.\d+ at index d of s;
\* 0 when it does not match there.
ThreePartEnd(s, d) ==
    LET a == RunEnd(s, d, Digit)
    IN  IF a = d \/ a > Len(s) \/ s[a] # "." THEN 0
        ELSE LET b == RunEnd(s, a + 1, Digit)
             IN  IF b = a + 1 \/ b > Len(s) \/ s[b] # "." THEN 0
                 ELSE LET c == RunEnd(s, b + 1, Digit)
                      IN  IF c = b + 1 THEN 0 ELSE c

\* VERSION\s+(\d+\.\d+\.\d+) matches at index k of s (VERSION in any case).
VersionClauseAt(s, k) ==
    /\ StartsAtNoCase(s, k, KwVersion)
    /\ RunEnd(s, k + Len(KwVersion), Whitespace) > k + Len(KwVersion)
    /\ ThreePartEnd(s, RunEnd(s, k + Len(KwVersion), Whitespace)) # 0

\* Group 1 of PROJECT\s*\([^)]*VERSION\s+(\d+\.\d+\.\d+)[^)]*\) matched at
\* index i of s with re.IGNORECASE, <<>> when it does not match there.  The
\* first [^)]* is greedy, so the last VERSION clause before the first ")"
\* is the one captured.
ProjectVersionAt(s, i) ==
    IF ~StartsAtNoCase(s, i, KwProject) THEN <<>>
    ELSE LET j == RunEnd(s, i + Len(KwProject), Whitespace)
             closes == {e \in (j + 1)..Len(s) : s[e] = ")"}
         IN  IF j > Len(s) \/ s[j] # "(" \/ closes = {} THEN <<>>
             ELSE LET ks == {k \in (j + 1)..(Min(closes) - 1) :
                                 VersionClauseAt(s, k)}
                  IN  IF ks = {} THEN <<>>
                      ELSE LET d == RunEnd(s, Max(ks) + Len(KwVersion),
                                           Whitespace)
                           IN  SubSeq(s, d, ThreePartEnd(s, d) - 1)

\* re.search: group 1 of the leftmost match, <<>> when there is none.
SearchProjectVersion(s) ==
    LET starts == {i \in 1..Len(s) : ProjectVersionAt(s, i) # <<>>}
    IN  IF starts = {} THEN <<>> ELSE ProjectVersionAt(s, Min(starts))

\* Group 1 of SET\s*\(VERSION_CPPFIX\s*"(\d+)"\s*\) matched at index i of s
\* (case-sensitive: no flag is passed), <<>> when it does not match there.
CppFixAt(s, i) ==
    IF ~StartsAt(s, i, KwSet) THEN <<>>
    ELSE LET j == RunEnd(s, i + Len(KwSet), Whitespace)
         IN  IF ~StartsAt(s, j, KwCppFix) THEN <<>>
             ELSE LET k == RunEnd(s, j + Len(KwCppFix), Whitespace)
                      d == RunEnd(s, k + 1, Digit)
                      m == RunEnd(s, d + 1, Whitespace)
                  IN  IF /\ k <= Len(s) /\ s[k] = "\""
                         /\ d > k + 1
                         /\ d <= Len(s) /\ s[d] = "\""
                         /\ m <= Len(s) /\ s[m] = ")"
                      THEN SubSeq(s, k + 1, d - 1)
                      ELSE <<>>

\* re.search: group 1 of the leftmost match, <<>> when there is none.
SearchCppFix(s) ==
    LET starts == {i \in 1..Len(s) : CppFixAt(s, i) # <<>>}
    IN  IF starts = {} THEN <<>> ELSE CppFixAt(s, Min(starts))

\* ----------------------------------------------------- results of a step
Ok(v) == [err |-> "none", val |-> v]

Raise(e) == [err |-> e, val |-> <<>>]

\* _parse_cmake_version on an existing, readable CMakeLists.txt of content s.
ParseCmakeContent(s) ==
    LET version == SearchProjectVersion(s)
        fix     == SearchCppFix(s)
        full    == IF fix # <<>> THEN version \o <<".">> \o fix ELSE version
    IN  IF version = <<>> THEN Raise("VersionNotFound")
        ELSE IF ~VersionPatternMatch(full) THEN Raise("InvalidVersionFormat")
        ELSE Ok(full)

\* Mutant of ProjectNameOf: only the leading heading marks are removed
\* (lstrip('#')) instead of every "#".
ProjectNameLeadingOnly(s) ==
    Strip(SubSeq(Strip(ReadLine(s)),
                 RunEnd(Strip(ReadLine(s)), 1, {"#"}),
                 Len(Strip(ReadLine(s)))))

\* The name _parse_project_name computes from a README.md of content s:
\* first_line = f.readline().strip(); first_line.replace('#', '').strip()
ProjectNameOf(s) == Strip(Replace(Strip(ReadLine(s)), <<"#">>, <<>>))

\* _parse_project_name on an existing, readable README.md of content s.
ParseReadmeContent(s) ==
    IF ProjectNameOf(s) = <<>> THEN Raise("EmptyProjectName")
    ELSE Ok(ProjectNameOf(s))

\* The content update_doxyfile writes back for a Doxyfile of content s.
PatchContent(s, version, project_name) ==
    Replace(Replace(s, VERSION_TOKEN, version), NAME_TOKEN, project_name)

\* ---------------------------------------------------------- text-mode I/O
RECURSIVE DecodeFrom(_, _)
\* Universal newlines on reading in text mode, from index i: "\r\n" and a
\* lone "\r" are read as "\n".
DecodeFrom(s, i) ==
    IF MatchesFrom(s, <<"\r">>, i) = {} THEN SubSeq(s, i, Len(s))
    ELSE LET j == Min(MatchesFrom(s, <<"\r">>, i))
         IN  SubSeq(s, i, j - 1) \o <<"\n">>
             \o DecodeFrom(s, IF j < Len(s) /\ s[j + 1] = "\n"
                              THEN j + 2 ELSE j + 1)

\* What Path.read_text() / open('r') gives for a file of content s.
TextRead(s) == DecodeFrom(s, 1)

\* What Path.write_text(s) stores: every "\n" written as os.linesep.
TextWrite(s, linesep) == Replace(s, <<"\n">>, linesep)

\* ------------------------------------------------------------- the inputs
\* 'project(Foo VERSION 1.2.3)'
ProjectDecl ==
    <<"p", "r", "o", "j", "e", "c", "t", "(", "F", "o", "o", " ", "V", "E",
      "R", "S", "I", "O", "N", " ", "1", ".", "2", ".", "3", ")">>

\* 'set(VERSION_CPPFIX "4")'
LowerSetDecl ==
    <<"s", "e", "t", "(", "V", "E", "R", "S", "I", "O", "N", "_", "C", "P",
      "P", "F", "I", "X", " ", "\"", "4", "\"", ")">>

\* 'SET(VERSION_CPPFIX "4")'
UpperSetDecl ==
    <<"S", "E", "T", "(", "V", "E", "R", "S", "I", "O", "N", "_", "C", "P",
      "P", "F", "I", "X", " ", "\"", "4", "\"", ")">>

NL == <<"\n">>

CmakePlain == ProjectDecl \o NL

CmakeLowerSet == ProjectDecl \o NL \o LowerSetDecl \o NL

CmakeUpperSet == ProjectDecl \o NL \o UpperSetDecl \o NL

\* 'project(Foo)\n'
CmakeNoVersion ==
    <<"p", "r", "o", "j", "e", "c", "t", "(", "F", "o", "o", ")", "\n">>

\* 'PROJECT (Foo\r\n VERSION  10.20.30 LANGUAGES CXX)'
CmakeSpread ==
    <<"P", "R", "O", "J", "E", "C", "T", " ", "(", "F", "o", "o", "\r", "\n",
      " ", "V", "E", "R", "S", "I", "O", "N", " ", " ", "1", "0", ".", "2",
      "0", ".", "3", "0", " ", "L", "A", "N", "G", "U", "A", "G", "E", "S",
      " ", "C", "X", "X", ")">>

File(s) == [exists |-> TRUE, content |-> s]

Missing == [exists |-> FALSE, content |-> <<>>]

CmakeFiles ==
    {Missing} \cup {File(s) : s \in {CmakePlain, CmakeLowerSet, CmakeUpperSet,
                                     CmakeNoVersion, CmakeSpread}}

\* '# MyProject\nmore\n'
ReadmeMyProject ==
    <<"#", " ", "M", "y", "P", "r", "o", "j", "e", "c", "t", "\n", "m", "o",
      "r", "e", "\n">>

\* '#   \n# Later\n'
ReadmeMarksOnly ==
    <<"#", " ", " ", " ", "\n", "#", " ", "L", "a", "t", "e", "r", "\n">>

\* '\n# Later\n'
ReadmeBlankFirst ==
    <<"\n", "#", " ", "L", "a", "t", "e", "r", "\n">>

\* ' ## A#B \rmore'
ReadmeInnerMark ==
    <<" ", "#", "#", " ", "A", "#", "B", " ", "\r", "m", "o", "r", "e">>

ReadmeVersionToken == <<"#", " ">> \o VERSION_TOKEN \o NL

ReadmeNameToken == <<"#", " ">> \o NAME_TOKEN \o <<"\r", "\n">>

ReadmeFiles ==
    {Missing} \cup {File(s) : s \in {ReadmeMyProject, ReadmeMarksOnly,
                                     ReadmeBlankFirst, ReadmeInnerMark,
                                     ReadmeVersionToken, ReadmeNameToken}}

\* NAME_TOKEN without its closing %
PartialNameToken ==
    <<"%", "P", "R", "O", "J", "E", "C", "T", "_", "N", "A", "M", "E">>

\* 'a\r\nb'
PlainText ==
    <<"a", "\r", "\n", "b">>

DoxySpecExample ==
    <<"V", "e", "r", "s", "i", "o", "n", ":", " ">> \o VERSION_TOKEN
    \o <<",", " ", "N", "a", "m", "e", ":", " ">> \o NAME_TOKEN

Fragments == {VERSION_TOKEN, NAME_TOKEN, PartialNameToken, PlainText}

RECURSIVE Concat(_)
Concat(fs) == IF fs = <<>> THEN <<>> ELSE Head(fs) \o Concat(Tail(fs))

\* Doxyfile contents: up to MaxFrags fragments in a row, and the example.
DoxyContents ==
    {DoxySpecExample}
    \cup {Concat(fs) : fs \in UNION {[1..n -> Fragments] : n \in 0..MaxFrags}}

DoxyFiles == {Missing} \cup {File(s) : s \in DoxyContents}

\* '2.0.0'
VerDemo ==
    <<"2", ".", "0", ".", "0">>

\* '1.2.3.4'
VerFour ==
    <<"1", ".", "2", ".", "3", ".", "4">>

\* 'bad-version'
VerBad ==
    <<"b", "a", "d", "-", "v", "e", "r", "s", "i", "o", "n">>

\* '1.2.3\n'
VerNewline ==
    <<"1", ".", "2", ".", "3", "\n">>

\* '1.2'
VerTwoPart ==
    <<"1", ".", "2">>

\* '1.2.3.4.5'
VerFivePart ==
    <<"1", ".", "2", ".", "3", ".", "4", ".", "5">>

\* The optional positional argument: None when absent.
None == [given |-> FALSE, val |-> <<>>]

Some(s) == [given |-> TRUE, val |-> s]

VersionArgs ==
    {None} \cup {Some(s) : s \in {<<>>, VerDemo, VerFour, VerBad, VerNewline,
                                  VerTwoPart, VerFivePart}}

\* Python truth of an Optional[str]: neither None nor "".
Truthy(v) == v.given /\ v.val # <<>>

LineSeps == {<<"\n">>, <<"\r", "\n">>}

\* ---------------------------------------------------------------- the state
VARIABLES
    argVersion,    \* args.version
    linesep,       \* os.linesep of the host
    cmake,         \* CMakeLists.txt in the working directory
    readme,        \* README.md in the working directory
    doxyfile,      \* the file at args.doxyfile_path
    pc,            \* position of the run
    version,       \* update_doxyfile's parameter/local `version`
    project_name,  \* update_doxyfile's local `project_name`
    validated,     \* what validate_version returned, "unset" if not called
    error,         \* the exception raised, "none" if none
    errorLogs,     \* calls of logger.error in this run
    exitCode,      \* exit status of the process, -1 while it runs
    cmakeRead,     \* CMakeLists.txt was opened in this run
    readmeRead,    \* README.md was opened in this run
    written,       \* write_text returned in this run
    before,        \* doxyfile as it was when this run started
    prevExit,      \* exit status of the previous run, -1 if none
    run            \* number of the current run

vars ==
    <<argVersion, linesep, cmake, readme, doxyfile, pc, version,
      project_name, validated, error, errorLogs, exitCode, cmakeRead,
      readmeRead, written, before, prevExit, run>>

env == <<argVersion, linesep, cmake, readme>>

history == <<before, prevExit, run>>

Init ==
    /\ argVersion \in VersionArgs
    /\ linesep \in LineSeps
    /\ cmake \in CmakeFiles
    /\ readme \in ReadmeFiles
    /\ doxyfile \in DoxyFiles
    /\ pc = "validate"
    /\ version = argVersion
    /\ project_name = <<>>
    /\ validated = "unset"
    /\ error = "none"
    /\ errorLogs = 0
    /\ exitCode = -1
    /\ cmakeRead = FALSE
    /\ readmeRead = FALSE
    /\ written = FALSE
    /\ before = doxyfile
    /\ prevExit = -1
    /\ run = 1

\* An exception leaves update_doxyfile for the handler of __main__.
RaiseError(e) == error' = e /\ pc' = "except"

\* if version and not self.validate_version(version): raise VersionError
ValidateVersion ==
    /\ pc = "validate"
    /\ IF Truthy(version)
       THEN /\ validated' = IF validate_version(version.val)
                            THEN "yes" ELSE "no"
            /\ IF validate_version(version.val)
               THEN pc' = "resolve_version" /\ UNCHANGED error
               ELSE RaiseError("InvalidVersionFormat")
       ELSE /\ pc' = "resolve_version"
            /\ UNCHANGED <<validated, error>>
    /\ UNCHANGED <<env, history, doxyfile, version, project_name, errorLogs,
                   exitCode, cmakeRead, readmeRead, written>>

\* The outcome of `if not version: version = self._parse_cmake_version(...)`
\* when CMakeLists.txt, if there, can be read.
VersionStep ==
    IF Truthy(version) THEN Ok(version.val)
    ELSE IF ~cmake.exists THEN Raise("SourceFileMissing")
    ELSE ParseCmakeContent(TextRead(cmake.content))

\* Mutant of ResolveVersion: the version placeholder is patched into the
\* Doxyfile as soon as the version is known.
ResolveVersionEager ==
    /\ pc = "resolve_version"
    /\ cmakeRead' = (cmakeRead \/ (~Truthy(version) /\ cmake.exists))
    /\ IF VersionStep.err = "none"
       THEN /\ version' = Some(VersionStep.val)
            /\ pc' = "resolve_name"
            /\ doxyfile' =
                 IF doxyfile.exists
                 THEN File(TextWrite(Replace(TextRead(doxyfile.content),
                                             VERSION_TOKEN, VersionStep.val),
                                     linesep))
                 ELSE doxyfile
            /\ UNCHANGED error
       ELSE /\ RaiseError(VersionStep.err)
            /\ UNCHANGED <<version, doxyfile>>
    /\ UNCHANGED <<env, history, project_name, validated, errorLogs,
                   exitCode, readmeRead, written>>

\* if not version: version = self._parse_cmake_version(Path("CMakeLists.txt"))
ResolveVersion ==
    /\ pc = "resolve_version"
    /\ cmakeRead' = (cmakeRead \/ (~Truthy(version) /\ cmake.exists))
    /\ IF VersionStep.err = "none"
       THEN /\ version' = Some(VersionStep.val)
            /\ pc' = "resolve_name"
            /\ UNCHANGED error
       ELSE /\ RaiseError(VersionStep.err)
            /\ UNCHANGED version
    /\ UNCHANGED <<env, history, doxyfile, project_name, validated,
                   errorLogs, exitCode, readmeRead, written>>

\* cmake_file.read_text() raises (unreadable file): the OSError propagates.
CmakeReadFails ==
    /\ pc = "resolve_version"
    /\ ~Truthy(version)
    /\ cmake.exists
    /\ cmakeRead' = TRUE
    /\ RaiseError("ReadError")
    /\ UNCHANGED <<env, history, doxyfile, version, project_name, validated,
                   errorLogs, exitCode, readmeRead, written>>

\* The outcome of self._parse_project_name(Path("README.md")) when
\* README.md, if there, can be read.
NameStep ==
    IF ~readme.exists THEN Raise("SourceFileMissing")
    ELSE ParseReadmeContent(TextRead(readme.content))

\* project_name = self._parse_project_name(Path("README.md"))
ResolveName ==
    /\ pc = "resolve_name"
    /\ readmeRead' = (readmeRead \/ readme.exists)
    /\ IF NameStep.err = "none"
       THEN /\ project_name' = NameStep.val
            /\ pc' = "check_target"
            /\ UNCHANGED error
       ELSE /\ RaiseError(NameStep.err)
            /\ UNCHANGED project_name
    /\ UNCHANGED <<env, history, doxyfile, version, validated, errorLogs,
                   exitCode, cmakeRead, written>>

\* except IOError: raise IOError("Failed to read README.md: ...")
ReadmeReadFails ==
    /\ pc = "resolve_name"
    /\ readme.exists
    /\ readmeRead' = TRUE
    /\ RaiseError("ReadError")
    /\ UNCHANGED <<env, history, doxyfile, version, project_name, validated,
                   errorLogs, exitCode, cmakeRead, written>>

\* if not doxyfile_path.exists(): raise FileNotFoundError
CheckTarget ==
    /\ pc = "check_target"
    /\ IF doxyfile.exists
       THEN pc' = "rewrite" /\ UNCHANGED error
       ELSE RaiseError("TargetFileMissing")
    /\ UNCHANGED <<env, history, doxyfile, version, project_name, validated,
                   errorLogs, exitCode, cmakeRead, readmeRead, written>>

\* content = read_text(); two replace calls; write_text(updated_content)
Rewrite ==
    /\ pc = "rewrite"
    /\ doxyfile' = File(TextWrite(PatchContent(TextRead(doxyfile.content),
                                               version.val, project_name),
                                  linesep))
    /\ written' = TRUE
    /\ pc' = "return"
    /\ UNCHANGED <<env, history, version, project_name, validated, error,
                   errorLogs, exitCode, cmakeRead, readmeRead>>

\* except IOError: raise IOError("Failed to update Doxyfile: ...").  The
\* read or the open for writing failed (file untouched), or the write failed
\* after the open had truncated the file.
RewriteFails ==
    /\ pc = "rewrite"
    /\ doxyfile' \in {doxyfile, File(<<>>)}
    /\ RaiseError("WriteError")
    /\ UNCHANGED <<env, history, version, project_name, validated,
                   errorLogs, exitCode, cmakeRead, readmeRead, written>>

\* Mutant of HandleException: the error is logged but the process is not
\* made to exit with status 1.
HandleExceptionNoExit ==
    /\ pc = "except"
    /\ errorLogs' = errorLogs + 1
    /\ exitCode' = 0
    /\ pc' = "done"
    /\ UNCHANGED <<env, history, doxyfile, version, project_name, validated,
                   error, cmakeRead, readmeRead, written>>

\* except Exception as e: logger.error(str(e)); raise SystemExit(1)
HandleException ==
    /\ pc = "except"
    /\ errorLogs' = errorLogs + 1
    /\ exitCode' = 1
    /\ pc' = "done"
    /\ UNCHANGED <<env, history, doxyfile, version, project_name, validated,
                   error, cmakeRead, readmeRead, written>>

\* update_doxyfile returned: the script ends, exit status 0.
ExitOk ==
    /\ pc = "return"
    /\ exitCode' = 0
    /\ pc' = "done"
    /\ UNCHANGED <<env, history, doxyfile, version, project_name, validated,
                   error, errorLogs, cmakeRead, readmeRead, written>>

\* The script is invoked again with the same arguments on the files as the
\* previous run left them.
Rerun ==
    /\ pc = "done"
    /\ run < MaxRuns
    /\ run' = run + 1
    /\ prevExit' = exitCode
    /\ before' = doxyfile
    /\ pc' = "validate"
    /\ version' = argVersion
    /\ project_name' = <<>>
    /\ validated' = "unset"
    /\ error' = "none"
    /\ errorLogs' = 0
    /\ exitCode' = -1
    /\ cmakeRead' = FALSE
    /\ readmeRead' = FALSE
    /\ written' = FALSE
    /\ UNCHANGED <<env, doxyfile>>

Next ==
    \/ ValidateVersion
    \/ ResolveVersion
    \/ CmakeReadFails
    \/ ResolveName
    \/ ReadmeReadFails
    \/ CheckTarget
    \/ Rewrite
    \/ RewriteFails
    \/ HandleException
    \/ ExitOk
    \/ Rerun

Spec == Init /\ [][Next]_vars

\* ------------------------------------------------------------ the properties
\* t occurs somewhere in s.
Contains(s, t) == MatchesFrom(s, t, 1) # {}

\* The shape D.D.D or D.D.D.D, each D one or more decimal digits, and
\* nothing else: stated on the dots of the string, not as a pattern.
WellFormedVersion(s) ==
    LET dots == {i \in 1..Len(s) : s[i] = "."}
    IN  /\ Len(s) > 0
        /\ \A i \in 1..Len(s) : s[i] \in Digit \cup {"."}
        /\ Cardinality(dots) \in {2, 3}
        /\ 1 \notin dots
        /\ Len(s) \notin dots
        /\ \A i \in dots : i + 1 \notin dots

\* The first line of a document: the text before its first line ending.
FirstLineOf(s) ==
    LET ends == {i \in 1..Len(s) : s[i] \in {"\n", "\r"}}
    IN  IF ends = {} THEN s ELSE SubSeq(s, 1, Min(ends) - 1)

NotHash(c) == c # "#"

\* The first line with every "#" removed and surrounding whitespace stripped.
HeadingText(s) == Strip(SelectSeq(FirstLineOf(s), NotHash))

RECURSIVE SubstituteFrom(_, _, _, _)
\* One pass over s from index i in which each occurrence of either token
\* is replaced by its value and every other character is copied.
SubstituteFrom(s, v, n, i) ==
    LET ms == MatchesFrom(s, VERSION_TOKEN, i) \cup MatchesFrom(s, NAME_TOKEN, i)
    IN  IF ms = {} THEN SubSeq(s, i, Len(s))
        ELSE IF StartsAt(s, Min(ms), VERSION_TOKEN)
             THEN SubSeq(s, i, Min(ms) - 1) \o v
                  \o SubstituteFrom(s, v, n, Min(ms) + Len(VERSION_TOKEN))
             ELSE SubSeq(s, i, Min(ms) - 1) \o n
                  \o SubstituteFrom(s, v, n, Min(ms) + Len(NAME_TOKEN))

Substitute(s, v, n) == SubstituteFrom(s, v, n, 1)

\* The version step of this run has succeeded and the name step has acted.
NameStepDone ==
    /\ pc \notin {"validate", "resolve_version", "resolve_name"}
    /\ Truthy(version)
    /\ error # "InvalidVersionFormat"

\* The errors of version validation, version resolution, project-name
\* resolution and the target-existence check.
ResolutionErrors ==
    {"InvalidVersionFormat", "VersionNotFound", "SourceFileMissing",
     "ReadError", "EmptyProjectName", "TargetFileMissing"}

\* C1: whenever the run has failed in version validation, version
\* resolution, project-name resolution or the target-existence check, the
\* target file is exactly as it was when the run started and no write has
\* been made.
NoWriteOnResolutionFailure ==
    error \in ResolutionErrors => doxyfile = before /\ ~written

\* C1 witness: a run whose version came from CMakeLists.txt and whose name
\* resolution failed, on an existing target that holds a placeholder.
FailedRunOnPatchableTarget ==
    /\ pc = "done"
    /\ error = "EmptyProjectName"
    /\ cmakeRead
    /\ before.exists
    /\ Contains(before.content, VERSION_TOKEN)

\* C2 (as claimed): a run on a missing target ends with TargetFileMissing
\* and has read neither CMakeLists.txt nor README.md.
TargetMissingReportedFirst ==
    (pc = "done" /\ ~before.exists)
        => (error = "TargetFileMissing" /\ ~cmakeRead /\ ~readmeRead)

VerPlain == <<"1", ".", "2", ".", "3">>

\* C3 (as claimed): with no explicit version and a readable CMakeLists.txt
\* containing project(Foo VERSION 1.2.3), the resolved version is 1.2.3.4
\* when the file also holds set(VERSION_CPPFIX "4") or
\* SET(VERSION_CPPFIX "4"), and 1.2.3 when it holds neither.
CmakeVersionWithFixLevel ==
    (/\ ~argVersion.given
     /\ cmakeRead
     /\ ~(error = "ReadError" /\ ~readmeRead)
     /\ Contains(cmake.content, ProjectDecl))
        => version = Some(IF \/ Contains(cmake.content, LowerSetDecl)
                             \/ Contains(cmake.content, UpperSetDecl)
                          THEN VerFour ELSE VerPlain)

\* C4 (as claimed): validate_version returns true exactly for the strings
\* of the shape D.D.D or D.D.D.D.
ValidateAcceptsExactlyWellFormed ==
    validated # "unset"
        => ((validated = "yes") <=> WellFormedVersion(argVersion.val))

\* C5 (as claimed): a run given an explicit version that is not of the
\* version format ends with InvalidVersionFormat, leaves the target as it
\* was and does not consult CMakeLists.txt.
InvalidExplicitVersionRejected ==
    (pc = "done" /\ argVersion.given /\ ~WellFormedVersion(argVersion.val))
        => (error = "InvalidVersionFormat" /\ doxyfile = before /\ ~cmakeRead)

\* C6 (as claimed): a successful run with a valid version and a non-empty
\* name on a target that the previous run, with the same arguments, patched
\* successfully leaves the target as that previous run wrote it.
PatchIdempotent ==
    (/\ pc = "done" /\ exitCode = 0 /\ prevExit = 0
     /\ WellFormedVersion(version.val) /\ project_name # <<>>)
        => doxyfile = before

\* C7 (as claimed): after a successful write the target holds the original
\* content with every occurrence of either token replaced by its value and
\* all other text unchanged.
PatchReplacesEveryToken ==
    written
        => doxyfile.content
             = Substitute(before.content, version.val, project_name)

\* C8: once the name step has acted on a readable README.md, the outcome is
\* decided by the first line alone: SourceFileMissing when the file is
\* missing, EmptyProjectName when the first line without "#" and surrounding
\* whitespace is empty, and otherwise exactly that text as the project name;
\* a project name in use past the name step is never empty.
ProjectNameFromFirstLine ==
    /\ (NameStepDone /\ error # "ReadError")
          => IF ~readme.exists
             THEN error = "SourceFileMissing" /\ project_name = <<>>
             ELSE IF HeadingText(readme.content) = <<>>
             THEN error = "EmptyProjectName" /\ project_name = <<>>
             ELSE /\ project_name = HeadingText(readme.content)
                  /\ error \notin {"SourceFileMissing", "EmptyProjectName"}
    /\ pc \in {"check_target", "rewrite", "return"} => project_name # <<>>

\* C8 witness: the name MyProject taken from the first line "# MyProject".
NameTakenFromHeading ==
    /\ pc = "check_target"
    /\ readme = File(ReadmeMyProject)
    /\ project_name = <<"M", "y", "P", "r", "o", "j", "e", "c", "t">>

\* C9: a run exits exactly when it is done, with status 0 or 1; status 0
\* goes with no error, no error message and the target written with both
\* substitutions applied, and a finished run that wrote the target without
\* error has status 0; status 1 goes with an error, exactly one error
\* message and no completed write; after an error nothing but the handler
\* and the exit runs.
RunEndsInOneOfTwoOutcomes ==
    /\ exitCode \in {-1, 0, 1}
    /\ (pc = "done") <=> (exitCode # -1)
    /\ exitCode = 0
          => /\ error = "none" /\ errorLogs = 0 /\ written
             /\ doxyfile = File(TextWrite(PatchContent(
                                  TextRead(before.content), version.val,
                                  project_name), linesep))
    /\ (pc = "done" /\ error = "none") => exitCode = 0
    /\ exitCode = 1 => (error # "none" /\ errorLogs = 1 /\ ~written)
    /\ error # "none" => (pc \in {"except", "done"} /\ ~written)
    /\ errorLogs <= 1

\* C9 witness: a run that failed while rewriting the target and exited
\* with status 1 after one error message.
FailedRunExitsOne ==
    /\ pc = "done"
    /\ exitCode = 1
    /\ errorLogs = 1
    /\ error = "WriteError"

\* C10 (as claimed): CMakeLists.txt is read only when no explicit version
\* is given; README.md is read only after the version step has succeeded;
\* the target is written only after both; and a run given a well-formed
\* explicit version never fails on CMakeLists.txt.
StepsInOrder ==
    /\ cmakeRead => ~argVersion.given
    /\ readmeRead => (Truthy(version) /\ error # "InvalidVersionFormat")
    /\ written => (Truthy(version) /\ project_name # <<>>)
    /\ (argVersion.given /\ WellFormedVersion(argVersion.val))
          => /\ ~cmakeRead
             /\ error # "VersionNotFound"
             /\ (error = "SourceFileMissing" => ~readme.exists)

====
